---- MODULE Spec2Model ----
(***************************************************************************)
(* A model of the range_check crate: the range forms of the host language, *)
(* the Bounds destructured from them, the containment tests (the crate's   *)
(* own Contains/Within traits and RangeBounds::contains), check_range with *)
(* its error value, the error's generify conversion and its Display form.  *)
(*                                                                         *)
(* Every operation of the crate is a pure function, so a behaviour is one  *)
(* choice of inputs (the value type T, the candidate value, the range)     *)
(* followed by calls of the operations on those inputs.                    *)
(***************************************************************************)
EXTENDS Integers, Sequences, FiniteSets, TLC

VARIABLES
    T,          \* the value type the generic code is instantiated at
    value,      \* the candidate value (`self` of check_range / is_within)
    range,      \* the range the value is checked against
    result,     \* what check_range returned, NoResult before the call
    api,        \* which Check impl produced result: "check" (check.rs) or "result" (result.rs)
    shown,      \* to_string() of the returned error, "" before the call
    generic,    \* generify() of the returned error, NoError before the call
    conv,       \* the From<T> for U conversion generify was instantiated with
    contained,  \* the last answer of range.contains(value) and how value was passed
    within,     \* the last answer of value.is_within(range) and how range was passed
    bounds_shown \* to_string() of the range's Bounds on their own, "" before the call

vars == <<T, value, range, result, api, shown, generic, conv, contained, within, bounds_shown>>

-----------------------------------------------------------------------------
(* Bounds of the model. *)

\* integer candidates and range edges are drawn from -1 .. MaxVal
MaxVal == 2
\* float candidates and range edges are NaN and -1 .. MaxFloat
MaxFloat == 1
\* conversions add a constant in 0 .. MaxAdd
MaxAdd == 1

-----------------------------------------------------------------------------
(* Values.  A value of an integer type is Num(n); a float type also has    *)
(* NaN, which compares with nothing.                                       *)

Num(n) == [nan |-> FALSE, n |-> n]
NaN == [nan |-> TRUE, n |-> 0]

IntTypes == {"i8", "i32"}
\* a newtype over f32 whose ordering is f32::total_cmp: a total order, NaN last
TotalTypes == {"TotalF32"}

\* the literals of the documentation example, 13.check_range(0..10)
DocVals == {Num(0), Num(10), Num(13)}
I8Vals == {Num(n) : n \in -1 .. MaxVal}
F32Vals == {NaN} \cup {Num(n) : n \in -1 .. MaxFloat}

\* the values of type ty the model draws from
Vals(ty) == IF ty \in IntTypes THEN I8Vals \cup DocVals ELSE F32Vals

\* PartialOrd::partial_cmp of the value type: "None" when incomparable
PartialCmp(ty, a, b) ==
    IF ty \in TotalTypes
    THEN CASE a.nan /\ b.nan -> "Equal"
           [] a.nan /\ ~b.nan -> "Greater"
           [] ~a.nan /\ b.nan -> "Less"
           [] OTHER -> IF a.n < b.n THEN "Less"
                       ELSE IF a.n = b.n THEN "Equal" ELSE "Greater"
    ELSE IF a.nan \/ b.nan THEN "None"
    ELSE IF a.n < b.n THEN "Less"
    ELSE IF a.n = b.n THEN "Equal" ELSE "Greater"

\* the comparison operators, as PartialOrd derives them from partial_cmp
lt(ty, a, b) == PartialCmp(ty, a, b) = "Less"
le(ty, a, b) == PartialCmp(ty, a, b) \in {"Less", "Equal"}
\* a faulty >=: "not less", which holds of incomparable values too
ge_not_lt(ty, a, b) == ~(PartialCmp(ty, a, b) = "Less")
ge(ty, a, b) == PartialCmp(ty, a, b) \in {"Greater", "Equal"}

\* a value handed over directly, and a reference to it
ByValue(x) == [by |-> "value", target |-> x]
Ref(x) == [by |-> "ref", target |-> x]
PassModes == {"value", "ref"}
Pass(by, x) == [by |-> by, target |-> x]

\* Borrow::borrow: a T and a &T both give a &T
Borrow(arg) == Ref(arg.target)

-----------------------------------------------------------------------------
(* Bound edges and the range forms.                                        *)

Included(x) == [tag |-> "Included", v |-> x]
Excluded(x) == [tag |-> "Excluded", v |-> x]
Unbounded == [tag |-> "Unbounded"]

BoundsOver(S) == {Included(x) : x \in S} \cup {Excluded(x) : x \in S} \cup {Unbounded}

Range(a, b) == [kind |-> "Range", start |-> a, end |-> b]
RangeInclusive(a, b) == [kind |-> "RangeInclusive", start |-> a, end |-> b]
RangeFrom(a) == [kind |-> "RangeFrom", start |-> a]
RangeTo(b) == [kind |-> "RangeTo", end |-> b]
RangeToInclusive(b) == [kind |-> "RangeToInclusive", end |-> b]
RangeFull == [kind |-> "RangeFull"]
\* the (Bound<T>, Bound<T>) pair, the one form with an excluded lower edge
BoundPair(lo, hi) == [kind |-> "BoundPair", start |-> lo, end |-> hi]

\* the forms a range literal can write
LiteralRanges(S) ==
    {Range(a, b) : a \in S, b \in S}
        \cup {RangeInclusive(a, b) : a \in S, b \in S}
        \cup {RangeFrom(a) : a \in S}
        \cup {RangeTo(b) : b \in S}
        \cup {RangeToInclusive(b) : b \in S}
        \cup {RangeFull}

AllRanges(S) ==
    LiteralRanges(S) \cup {BoundPair(lo, hi) : lo \in BoundsOver(S), hi \in BoundsOver(S)}

\* RangeBounds::start_bound: the lower edge, holding a reference to its value
start_bound(r) ==
    CASE r.kind \in {"Range", "RangeInclusive", "RangeFrom"} -> Included(Ref(r.start))
      [] r.kind \in {"RangeTo", "RangeToInclusive", "RangeFull"} -> Unbounded
      [] r.kind = "BoundPair" ->
            IF r.start.tag = "Unbounded" THEN Unbounded
            ELSE [tag |-> r.start.tag, v |-> Ref(r.start.v)]

\* RangeBounds::end_bound: the upper edge, holding a reference to its value
end_bound(r) ==
    CASE r.kind \in {"Range", "RangeTo"} -> Excluded(Ref(r.end))
      [] r.kind \in {"RangeInclusive", "RangeToInclusive"} -> Included(Ref(r.end))
      [] r.kind \in {"RangeFrom", "RangeFull"} -> Unbounded
      [] r.kind = "BoundPair" ->
            IF r.end.tag = "Unbounded" THEN Unbounded
            ELSE [tag |-> r.end.tag, v |-> Ref(r.end.v)]

\* a faulty RangeBounds::contains: an excluded upper edge admits its own value
RangeBounds_contains_closed(ty, r, item) ==
    /\ LET s == start_bound(r)
       IN CASE s.tag = "Included" -> le(ty, s.v.target, item.target)
            [] s.tag = "Excluded" -> lt(ty, s.v.target, item.target)
            [] s.tag = "Unbounded" -> TRUE
    /\ LET e == end_bound(r)
       IN CASE e.tag = "Included" -> le(ty, item.target, e.v.target)
            [] e.tag = "Excluded" -> le(ty, item.target, e.v.target)
            [] e.tag = "Unbounded" -> TRUE
\* RangeBounds::contains, the test check.rs calls: each edge against the item
RangeBounds_contains(ty, r, item) ==
    /\ LET s == start_bound(r)
       IN CASE s.tag = "Included" -> le(ty, s.v.target, item.target)
            [] s.tag = "Excluded" -> lt(ty, s.v.target, item.target)
            [] s.tag = "Unbounded" -> TRUE
    /\ LET e == end_bound(r)
       IN CASE e.tag = "Included" -> le(ty, item.target, e.v.target)
            [] e.tag = "Excluded" -> lt(ty, item.target, e.v.target)
            [] e.tag = "Unbounded" -> TRUE

\* a faulty copy_bound: the Included and Excluded arms exchanged
copy_bound_flipped(bound) ==
    CASE bound.tag = "Unbounded" -> Unbounded
      [] bound.tag = "Included" -> Excluded(bound.v.target)
      [] bound.tag = "Excluded" -> Included(bound.v.target)
\* bounds.rs copy_bound: Bound<&T> to Bound<T>
copy_bound(bound) ==
    CASE bound.tag = "Unbounded" -> Unbounded
      [] bound.tag = "Included" -> Included(bound.v.target)
      [] bound.tag = "Excluded" -> Excluded(bound.v.target)

Bounds(lower, upper) == [lower |-> lower, upper |-> upper]
OutOfRangeError(allowed_range, outside_value) ==
    [allowed_range |-> allowed_range, outside_value |-> outside_value]

NoResult == [tag |-> "None"]
Ok(x) == [tag |-> "Ok", value |-> x]
Err(e) == [tag |-> "Err", error |-> e]

\* a faulty check_range: the edges of an inverted range put in order before the test
Normalised(ty, r) ==
    IF r.kind \in {"Range", "RangeInclusive"} /\ lt(ty, r.end, r.start)
    THEN [r EXCEPT !.start = r.end, !.end = r.start]
    ELSE r
check_range_normalised(ty, self, r) ==
    IF RangeBounds_contains(ty, Normalised(ty, r), Ref(self))
    THEN Ok(self)
    ELSE Err(OutOfRangeError(Bounds(copy_bound(start_bound(r)), copy_bound(end_bound(r))), self))
\* a faulty check_range: the test negated
check_range_inverted(ty, self, r) ==
    IF ~RangeBounds_contains(ty, r, Ref(self))
    THEN Ok(self)
    ELSE Err(OutOfRangeError(Bounds(copy_bound(start_bound(r)), copy_bound(end_bound(r))), self))
\* check.rs Check::check_range
check_range(ty, self, r) ==
    IF RangeBounds_contains(ty, r, Ref(self))
    THEN Ok(self)
    ELSE LET bounds == Bounds(copy_bound(start_bound(r)), copy_bound(end_bound(r)))
         IN Err(OutOfRangeError(bounds, self))

-----------------------------------------------------------------------------
(* The crate's own traits (lib.rs) and the Check impl built on them        *)
(* (result.rs).                                                            *)

\* the range types lib.rs implements Contains for
ContainsKinds == {"Range", "RangeFrom", "RangeTo"}

\* lib.rs Contains::contains for Range, RangeFrom and RangeTo
Contains_contains(ty, r, arg) ==
    LET v == Borrow(arg)
    IN CASE r.kind = "Range" -> ge(ty, v.target, r.start) /\ lt(ty, v.target, r.end)
         [] r.kind = "RangeFrom" -> ge(ty, v.target, r.start)
         [] r.kind = "RangeTo" -> lt(ty, v.target, r.end)

\* lib.rs Within<R, R>::is_within: the range handed over directly
is_within_value(ty, self, r) == Contains_contains(ty, Borrow(ByValue(r)).target, Ref(self))

\* a faulty is_within: the comparisons written out again, the upper edge closed
is_within_closed(ty, self, rref) ==
    LET r == Borrow(rref).target
    IN CASE r.kind = "Range" -> ge(ty, self, r.start) /\ le(ty, self, r.end)
         [] r.kind = "RangeFrom" -> ge(ty, self, r.start)
         [] r.kind = "RangeTo" -> le(ty, self, r.end)
\* lib.rs Within<R, &R>::is_within: the range handed over by reference
is_within_ref(ty, self, rref) == Contains_contains(ty, Borrow(rref).target, Ref(self))

\* Bounded::bounds of the three range types: the edges as Bounds
Bounded_bounds(r) ==
    CASE r.kind = "Range" -> Bounds(Included(r.start), Excluded(r.end))
      [] r.kind = "RangeFrom" -> Bounds(Included(r.start), Unbounded)
      [] r.kind = "RangeTo" -> Bounds(Unbounded, Excluded(r.end))

\* result.rs Error::new
Error_new(x, r) == [allowed_range |-> Bounded_bounds(r), outside_value |-> x]

\* result.rs Check::check_range
Result_check_range(ty, self, r) ==
    IF is_within_ref(ty, self, Ref(r))
    THEN Ok(self)
    ELSE Err(Error_new(self, r))

-----------------------------------------------------------------------------
(* Conversion of an error to another value type.                           *)

\* the conversions U::from the model instantiates generify with: x -> mul*x + add
\* into the type U; a float's NaN stays NaN
Convs(ty) ==
    [U : IF ty \in IntTypes THEN {"i32"} ELSE {"f64", "TotalF32"},
     mul : {-1, 0, 1, 2},
     add : 0 .. MaxAdd]

From(f, x) == IF x.nan THEN NaN ELSE Num(f.mul * x.n + f.add)

\* a faulty convert: lower and upper exchanged
convert_swapped(b, f) ==
    LET lower == CASE b.lower.tag = "Included" -> Included(From(f, b.lower.v))
                   [] b.lower.tag = "Excluded" -> Excluded(From(f, b.lower.v))
                   [] b.lower.tag = "Unbounded" -> Unbounded
        upper == CASE b.upper.tag = "Included" -> Included(From(f, b.upper.v))
                   [] b.upper.tag = "Excluded" -> Excluded(From(f, b.upper.v))
                   [] b.upper.tag = "Unbounded" -> Unbounded
    IN Bounds(upper, lower)
\* bounds.rs Bounds::convert
convert(b, f) ==
    LET lower == CASE b.lower.tag = "Included" -> Included(From(f, b.lower.v))
                   [] b.lower.tag = "Excluded" -> Excluded(From(f, b.lower.v))
                   [] b.lower.tag = "Unbounded" -> Unbounded
        upper == CASE b.upper.tag = "Included" -> Included(From(f, b.upper.v))
                   [] b.upper.tag = "Excluded" -> Excluded(From(f, b.upper.v))
                   [] b.upper.tag = "Unbounded" -> Unbounded
    IN Bounds(lower, upper)

\* a faulty generify: the bounds left unconverted
generify_value_only(e, f) == OutOfRangeError(e.allowed_range, From(f, e.outside_value))
\* check.rs OutOfRangeError::generify
generify(e, f) == OutOfRangeError(convert(e.allowed_range, f), From(f, e.outside_value))

\* Bound::map, which result.rs uses on each edge
Bound_map(bound, f) ==
    CASE bound.tag = "Included" -> Included(From(f, bound.v))
      [] bound.tag = "Excluded" -> Excluded(From(f, bound.v))
      [] bound.tag = "Unbounded" -> Unbounded

\* result.rs Error::generify
Error_generify(e, f) ==
    [outside_value |-> From(f, e.outside_value),
     allowed_range |-> Bounds(Bound_map(e.allowed_range.lower, f),
                              Bound_map(e.allowed_range.upper, f))]

-----------------------------------------------------------------------------
(* Rendering.                                                              *)

DigitChars == <<"0", "1", "2", "3", "4", "5", "6", "7", "8", "9">>

RECURSIVE Decimal(_)
Decimal(n) == IF n < 10 THEN DigitChars[n + 1]
              ELSE Decimal(n \div 10) \o DigitChars[(n % 10) + 1]

\* the {:?} form of a value: an integer in decimal, a float with its fraction
Debug(ty, x) ==
    IF x.nan THEN "NaN"
    ELSE (IF x.n < 0 THEN "-" \o Decimal(0 - x.n) ELSE Decimal(x.n))
            \o (IF ty \in IntTypes THEN "" ELSE ".0")

\* a faulty Display for Bounds: a space on each side of the dots
Bounds_fmt_spaced(ty, b) ==
    (CASE b.lower.tag = "Included" -> Debug(ty, b.lower.v)
       [] b.lower.tag = "Excluded" -> Debug(ty, b.lower.v) \o "="
       [] b.lower.tag = "Unbounded" -> "")
        \o " .. "
        \o (CASE b.upper.tag = "Included" -> "=" \o Debug(ty, b.upper.v)
              [] b.upper.tag = "Excluded" -> Debug(ty, b.upper.v)
              [] b.upper.tag = "Unbounded" -> "")
\* bounds.rs Display for Bounds
Bounds_fmt(ty, b) ==
    (CASE b.lower.tag = "Included" -> Debug(ty, b.lower.v)
       [] b.lower.tag = "Excluded" -> Debug(ty, b.lower.v) \o "="
       [] b.lower.tag = "Unbounded" -> "")
        \o ".."
        \o (CASE b.upper.tag = "Included" -> "=" \o Debug(ty, b.upper.v)
              [] b.upper.tag = "Excluded" -> Debug(ty, b.upper.v)
              [] b.upper.tag = "Unbounded" -> "")

\* check.rs Display for OutOfRangeError
OutOfRangeError_fmt(ty, e) ==
    "value (" \o Debug(ty, e.outside_value) \o ") outside of range ("
        \o Bounds_fmt(ty, e.allowed_range) \o ")"

\* result.rs Display for Error
Error_fmt(ty, e) ==
    "value (" \o Debug(ty, e.outside_value) \o ") outside of range ("
        \o Bounds_fmt(ty, e.allowed_range) \o ")"

-----------------------------------------------------------------------------

NoError == [tag |-> "None"]
NoConv == [U |-> "none", mul |-> 0, add |-> 0]
NoAnswer == [by |-> "none", ans |-> FALSE]

Inputs ==
    {<<"i8", x, r>> : x \in I8Vals, r \in AllRanges(I8Vals)}
        \cup {<<"i8", x, r>> : x \in DocVals, r \in LiteralRanges(DocVals)}
        \cup {<<"f32", x, r>> : x \in F32Vals, r \in AllRanges(F32Vals)}

Init ==
    /\ \E in \in Inputs : T = in[1] /\ value = in[2] /\ range = in[3]
    /\ result = NoResult
    /\ api = "none"
    /\ shown = ""
    /\ generic = NoError
    /\ conv = NoConv
    /\ contained = NoAnswer
    /\ within = NoAnswer
    /\ bounds_shown = ""

\* value.check_range(range) through the Check impl of check.rs
CheckRange ==
    /\ result = NoResult
    /\ result' = check_range(T, value, range)
    /\ api' = "check"
    /\ UNCHANGED <<T, value, range, shown, generic, conv, contained, within, bounds_shown>>

\* value.check_range(range) through the Check impl of result.rs, which asks
\* for a range that is Contains and Bounded
CheckRangeResult ==
    /\ result = NoResult
    /\ range.kind \in ContainsKinds
    /\ result' = Result_check_range(T, value, range)
    /\ api' = "result"
    /\ UNCHANGED <<T, value, range, shown, generic, conv, contained, within, bounds_shown>>

\* err.generify() on the OutOfRangeError of check.rs, for some U: From<T>
Generify ==
    /\ result.tag = "Err"
    /\ api = "check"
    /\ generic = NoError
    /\ \E f \in Convs(T) :
          /\ generic' = [tag |-> "Some", error |-> generify(result.error, f)]
          /\ conv' = f
    /\ UNCHANGED <<T, value, range, result, api, shown, contained, within, bounds_shown>>

\* err.generify() on the Error of result.rs, for some U: From<T>
GenerifyResult ==
    /\ result.tag = "Err"
    /\ api = "result"
    /\ generic = NoError
    /\ \E f \in Convs(T) :
          /\ generic' = [tag |-> "Some", error |-> Error_generify(result.error, f)]
          /\ conv' = f
    /\ UNCHANGED <<T, value, range, result, api, shown, contained, within, bounds_shown>>

\* err.to_string() on the returned error
Display ==
    /\ result.tag = "Err"
    /\ shown = ""
    /\ shown' = IF api = "check" THEN OutOfRangeError_fmt(T, result.error)
                ELSE Error_fmt(T, result.error)
    /\ UNCHANGED <<T, value, range, result, api, generic, conv, contained, within, bounds_shown>>

\* range.contains(value) or range.contains(&value)
ContainsCall ==
    /\ range.kind \in ContainsKinds
    /\ \E by \in PassModes :
          /\ contained.by # by
          /\ contained' = [by |-> by, ans |-> Contains_contains(T, range, Pass(by, value))]
    /\ UNCHANGED <<T, value, range, result, api, shown, generic, conv, within, bounds_shown>>

\* value.is_within(range) or value.is_within(&range)
IsWithinCall ==
    /\ range.kind \in ContainsKinds
    /\ \E by \in PassModes :
          /\ within.by # by
          /\ within' = [by |-> by,
                        ans |-> IF by = "value" THEN is_within_value(T, value, range)
                                ELSE is_within_ref(T, value, Ref(range))]
    /\ UNCHANGED <<T, value, range, result, api, shown, generic, conv, contained, bounds_shown>>

\* to_string() of the Bounds destructured from the range
DisplayBounds ==
    /\ bounds_shown = ""
    /\ bounds_shown' = Bounds_fmt(T, Bounds(copy_bound(start_bound(range)),
                                            copy_bound(end_bound(range))))
    /\ UNCHANGED <<T, value, range, result, api, shown, generic, conv, contained, within>>

Next ==
    \/ CheckRange
    \/ CheckRangeResult
    \/ Generify
    \/ GenerifyResult
    \/ Display
    \/ ContainsCall
    \/ IsWithinCall
    \/ DisplayBounds

Spec == Init /\ [][Next]_vars

-----------------------------------------------------------------------------
(* Properties.                                                             *)

\* the containment table on integers: Included is >= / <=, Excluded is > / <
LowerAdmits(edge, x) ==
    CASE edge.tag = "Included" -> x.n >= edge.v.n
      [] edge.tag = "Excluded" -> x.n > edge.v.n
      [] edge.tag = "Unbounded" -> TRUE
UpperAdmits(edge, x) ==
    CASE edge.tag = "Included" -> x.n <= edge.v.n
      [] edge.tag = "Excluded" -> x.n < edge.v.n
      [] edge.tag = "Unbounded" -> TRUE
Table(r, x) ==
    CASE r.kind = "Range" -> x.n >= r.start.n /\ x.n < r.end.n
      [] r.kind = "RangeInclusive" -> x.n >= r.start.n /\ x.n <= r.end.n
      [] r.kind = "RangeFrom" -> x.n >= r.start.n
      [] r.kind = "RangeTo" -> x.n < r.end.n
      [] r.kind = "RangeToInclusive" -> x.n <= r.end.n
      [] r.kind = "RangeFull" -> TRUE
      [] r.kind = "BoundPair" -> LowerAdmits(r.start, x) /\ UpperAdmits(r.end, x)

\* the edges each range form is said to have
EdgesOf(r) ==
    CASE r.kind = "Range" -> Bounds(Included(r.start), Excluded(r.end))
      [] r.kind = "RangeInclusive" -> Bounds(Included(r.start), Included(r.end))
      [] r.kind = "RangeFrom" -> Bounds(Included(r.start), Unbounded)
      [] r.kind = "RangeTo" -> Bounds(Unbounded, Excluded(r.end))
      [] r.kind = "RangeToInclusive" -> Bounds(Unbounded, Included(r.end))
      [] r.kind = "RangeFull" -> Bounds(Unbounded, Unbounded)
      [] r.kind = "BoundPair" -> Bounds(r.start, r.end)

\* the values on the edges of a range
EdgeValues(r) ==
    {b.v : b \in {b \in {EdgesOf(r).lower, EdgesOf(r).upper} : b.tag # "Unbounded"}}

\* C1: check_range ends in Ok or Err, Ok exactly when the containment test
\* accepts the value (the test of its own impl, and the answer contains gave
\* for the same inputs), and Ok carries the value unchanged.
C1_OkIffContained ==
    result # NoResult =>
        /\ result.tag \in {"Ok", "Err"}
        /\ (result.tag = "Ok") <=>
              (IF api = "check" THEN RangeBounds_contains(T, range, Ref(value))
               ELSE Contains_contains(T, range, Ref(value)))
        /\ result.tag = "Ok" => result.value = value
        /\ contained # NoAnswer => ((result.tag = "Ok") <=> contained.ans)

C1_Witness ==
    /\ result.tag = "Ok"
    /\ api = "check"
    /\ contained.by = "value"
    /\ contained.ans

\* C2: a failed check_range returns the original value and the edges of
\* the range, each with its tag and value as the range had them.
C2_ErrorCarriesInputs ==
    result.tag = "Err" =>
        /\ result.error.outside_value = value
        /\ result.error.allowed_range = EdgesOf(range)

C2_Witness ==
    /\ result.tag = "Err"
    /\ api = "check"
    /\ range.kind = "RangeInclusive"
    /\ value.n > range.end.n

\* C3: over a totally ordered type the decision of check_range, contains
\* and is_within is the one the containment table gives.
C3_ContainmentTable ==
    T \in IntTypes =>
        /\ result # NoResult => ((result.tag = "Ok") <=> Table(range, value))
        /\ contained # NoAnswer => (contained.ans <=> Table(range, value))
        /\ within # NoAnswer => (within.ans <=> Table(range, value))

C3_Witness ==
    /\ T \in IntTypes
    /\ range.kind = "Range"
    /\ range.start.n < range.end.n
    /\ value = range.end
    /\ result.tag = "Err"
    /\ contained # NoAnswer
    /\ ~contained.ans

\* C4: contains and is_within give the same answer for the same value and
\* range, and calling either again with its argument passed the other way
\* (by value, by reference) does not change the answer.
C4_ContainsIsWithin ==
    /\ []((contained # NoAnswer /\ within # NoAnswer) => (contained.ans <=> within.ans))
    /\ [][(contained # NoAnswer /\ contained' # NoAnswer) => (contained'.ans <=> contained.ans)]_vars
    /\ [][(within # NoAnswer /\ within' # NoAnswer) => (within'.ans <=> within.ans)]_vars

C4_Witness ==
    /\ contained.by = "value"
    /\ within.by = "ref"
    /\ contained.ans
    /\ within.ans

\* C5: when the value is incomparable with an edge of the range, contains
\* and is_within answer false and check_range returns Err.
C5_IndeterminateIsOutside ==
    (\E b \in EdgeValues(range) : PartialCmp(T, value, b) = "None") =>
        /\ result # NoResult => result.tag = "Err"
        /\ contained # NoAnswer => ~contained.ans
        /\ within # NoAnswer => ~within.ans

C5_Witness ==
    /\ range.kind = "Range"
    /\ ~value.nan
    /\ ~range.start.nan
    /\ range.end.nan
    /\ value.n >= range.start.n
    /\ result.tag = "Err"
    /\ contained # NoAnswer
    /\ within # NoAnswer

\* an edge after conversion: the same tag, the value converted
EdgeConverted(old, new) ==
    /\ new.tag = old.tag
    /\ old.tag # "Unbounded" => new.v = From(conv, old.v)

\* C6: generify converts the outside value and the value of each edge and
\* keeps each edge's tag and side.
C6_GenerifyKeepsTags ==
    generic # NoError =>
        /\ generic.error.outside_value = From(conv, result.error.outside_value)
        /\ EdgeConverted(result.error.allowed_range.lower, generic.error.allowed_range.lower)
        /\ EdgeConverted(result.error.allowed_range.upper, generic.error.allowed_range.upper)

C6_Witness ==
    /\ generic # NoError
    /\ api = "check"
    /\ result.error.allowed_range.lower.tag = "Included"
    /\ result.error.allowed_range.upper.tag = "Excluded"
    /\ result.error.allowed_range.lower.v # result.error.allowed_range.upper.v
    /\ conv.mul = 2
    /\ conv.add = 1

\* the range-literal renderings the edge tags are said to have
Listed(b) ==
    <<b.lower.tag, b.upper.tag>> \in
        {<<"Included", "Excluded">>, <<"Included", "Included">>, <<"Unbounded", "Excluded">>,
         <<"Included", "Unbounded">>, <<"Unbounded", "Unbounded">>}
RangeLiteral(ty, b) ==
    CASE b.lower.tag = "Included" /\ b.upper.tag = "Excluded" ->
            Debug(ty, b.lower.v) \o ".." \o Debug(ty, b.upper.v)
      [] b.lower.tag = "Included" /\ b.upper.tag = "Included" ->
            Debug(ty, b.lower.v) \o "..=" \o Debug(ty, b.upper.v)
      [] b.lower.tag = "Unbounded" /\ b.upper.tag = "Excluded" -> ".." \o Debug(ty, b.upper.v)
      [] b.lower.tag = "Included" /\ b.upper.tag = "Unbounded" -> Debug(ty, b.lower.v) \o ".."
      [] b.lower.tag = "Unbounded" /\ b.upper.tag = "Unbounded" -> ".."

C8_SpacedRendering ==
    /\ (shown # "" /\ range.kind = "Range") =>
          shown = "value (" \o Debug(T, value) \o ") outside of range ("
                      \o Debug(T, range.start) \o " .. " \o Debug(T, range.end) \o ")"
    /\ (shown # "" /\ T = "i8" /\ value = Num(13) /\ range = Range(Num(0), Num(10))) =>
          shown = "value (13) outside of range (0 .. 10)"

\* a..b with a >= b, or a..=b with a > b
EmptyOrInverted(r) ==
    \/ r.kind = "Range" /\ r.start.n >= r.end.n
    \/ r.kind = "RangeInclusive" /\ r.start.n > r.end.n

\* C9: over a totally ordered type an empty or inverted range rejects every
\* value, and the error carries the range's own edges as written.
C9_EmptyRangeRejects ==
    (T \in IntTypes /\ EmptyOrInverted(range) /\ result # NoResult) =>
        /\ result.tag = "Err"
        /\ result.error.allowed_range =
              Bounds(Included(range.start),
                     IF range.kind = "Range" THEN Excluded(range.end) ELSE Included(range.end))

C9_Witness ==
    /\ T \in IntTypes
    /\ range.kind = "RangeInclusive"
    /\ range.start.n > range.end.n
    /\ value.n > range.end.n
    /\ value.n < range.start.n
    /\ result.tag = "Err"
    /\ api = "check"

\* containment in the interval a Bounds describes, under the ordering of ty
BoundsContain(ty, b, x) ==
    /\ CASE b.lower.tag = "Included" -> le(ty, b.lower.v, x)
         [] b.lower.tag = "Excluded" -> lt(ty, b.lower.v, x)
         [] b.lower.tag = "Unbounded" -> TRUE
    /\ CASE b.upper.tag = "Included" -> le(ty, x, b.upper.v)
         [] b.upper.tag = "Excluded" -> lt(ty, x, b.upper.v)
         [] b.upper.tag = "Unbounded" -> TRUE

\* a < b in T implies f(a) < f(b) in U
StrictlyOrderPreserving(ty, f) ==
    \A a \in Vals(ty), b \in Vals(ty) :
        lt(ty, a, b) => lt(f.U, From(f, a), From(f, b))

\* f(a) compares with f(b) in U as a compares with b in T: less, equal,
\* greater or incomparable
PreservesComparisons(ty, f) ==
    \A a \in Vals(ty), b \in Vals(ty) :
        PartialCmp(f.U, From(f, a), From(f, b)) = PartialCmp(ty, a, b)

\* C10, as stated: the outside value of an error is outside its allowed
\* range, and stays so after generify with a strictly order-preserving
\* conversion.
C10_SelfConsistent ==
    /\ result.tag = "Err" =>
          ~BoundsContain(T, result.error.allowed_range, result.error.outside_value)
    /\ (generic # NoError /\ StrictlyOrderPreserving(T, conv)) =>
          ~BoundsContain(conv.U, generic.error.allowed_range, generic.error.outside_value)

\* C10, amended: the outside value of an error is outside its allowed range,
\* and stays so after generify with a conversion that preserves the outcome
\* of every comparison.
C10_SelfConsistentAmended ==
    /\ result.tag = "Err" =>
          ~BoundsContain(T, result.error.allowed_range, result.error.outside_value)
    /\ (generic # NoError /\ PreservesComparisons(T, conv)) =>
          ~BoundsContain(conv.U, generic.error.allowed_range, generic.error.outside_value)

C10_Witness ==
    /\ T = "f32"
    /\ value.nan
    /\ range.kind = "RangeFrom"
    /\ generic # NoError
    /\ api = "check"
    /\ conv.U = "f64"
    /\ conv.mul = 2
    /\ PreservesComparisons(T, conv)

====
